---- MODULE Spec2Model ----
(***************************************************************************)
(* Asynchronous job lifecycle of the deepeval-wrapper API:                 *)
(*   app/api/evaluation.py  async endpoints and the three background       *)
(*                          runners (single, bulk, dataset)                *)
(*   app/api/jobs.py        list / get / cancel / delete / stats / cleanup *)
(* JobService (app/services/job_service.py) and DeepEvalService            *)
(* (app/services/deepeval_service.py) are not part of the sources at hand; *)
(* their operations are modelled from the design document (sections 4.1,   *)
(* 4.2 and 4.3).                                                           *)
(***************************************************************************)
EXTENDS Integers, Sequences, FiniteSets, TLC

\* ---------------------------------------------------------------- bounds
MaxJobs == 1        \* jobs accepted in one behaviour
MaxN    == 3        \* test cases in one bulk request / rows in one dataset
MaxConc == 2        \* largest explicit max_concurrent below the cap
MaxTime == 2        \* clock ticks (days)

MaxRunning == 2     \* Jobs whose background tasks run side by side
MaxListed == 3      \* Jobs in a store that is listed page by page
MaxPage == 3        \* largest page number and page size of a list request

\* ------------------------------------------------------ program constants
BatchCap == 10      \* min(request.max_concurrent or 10, 10)

max_file_size == 2  \* settings.max_file_size (abstract size units)

\* ---------------------------------------------------------------- state
VARIABLES
    jobs,       \* jobs[s] : the Job records held by JobService instance s
    nextId,     \* next job id to allocate
    runner,     \* runner[id] : the background task dispatched for job id
    trace,      \* trace[id] : calls issued and exceptions caught so far by
                \*             the runner of job id
    now,        \* the clock (days)
    response    \* the last HTTP response sent

vars == <<jobs, nextId, runner, trace, now, response>>

Terminal == {"completed", "failed", "cancelled"}

\* An optional value is a set with at most one element.
None == {}

Some(x) == {x}

Range(f) == {f[x] : x \in DOMAIN f}

Min(a, b) == IF a < b THEN a ELSE b

\* ------------------------------------------------------------ JobService
\* The registry behind every JobService() handle (design 4.1: "process-wide
\* registry of Job entities, keyed by job id").
JobService == 1

\* job_service of app/api/evaluation.py
evaluation_job_service == JobService

\* mutant: the JobService() of app/api/jobs.py is a registry of its own
jobs_job_service_separate == JobService + 1

\* job_service of app/api/jobs.py
jobs_job_service == JobService

Services == {evaluation_job_service, jobs_job_service}

NewJob(id, tags, metadata, t) ==
    [job_id     |-> id,
     status     |-> "pending",
     completed  |-> 0,
     total      |-> 0,
     message    |-> "",
     tags       |-> tags,
     metadata   |-> metadata,
     created_at |-> t,
     updated_at |-> t,
     results    |-> None,
     summary    |-> None,
     error      |-> None]

\* create(name, tags, metadata) -> id
JobService_create_job(S, id, tags, metadata, t) ==
    [k \in DOMAIN S \cup {id} |->
        IF k = id THEN NewJob(id, tags, metadata, t) ELSE S[k]]

\* get(id) -> Job | not-found
JobService_get_job(S, id) == IF id \in DOMAIN S THEN Some(S[id]) ELSE None

\* mutant: the store takes a write for any Job it holds, terminal or not
JobService_Writable_unguarded(S, id) == id \in DOMAIN S

\* A write is dropped when the Job is absent or already terminal.
JobService_Writable(S, id) == id \in DOMAIN S /\ S[id].status \notin Terminal

JobService_update_job_status(S, id, st, t) ==
    IF JobService_Writable(S, id)
    THEN [S EXCEPT ![id].status = st, ![id].updated_at = t]
    ELSE S

JobService_update_job_progress(S, id, completed, total, message, t) ==
    IF JobService_Writable(S, id)
    THEN [S EXCEPT ![id].completed = completed, ![id].total = total,
                   ![id].message = message, ![id].updated_at = t]
    ELSE S

\* mutant: complete stores results and summary and leaves the status alone
JobService_complete_job_keeps_status(S, id, results, summary, t) ==
    IF JobService_Writable(S, id)
    THEN [S EXCEPT ![id].results = Some(results),
                   ![id].summary = Some(summary), ![id].updated_at = t]
    ELSE S

JobService_complete_job(S, id, results, summary, t) ==
    IF JobService_Writable(S, id)
    THEN [S EXCEPT ![id].status = "completed", ![id].results = Some(results),
                   ![id].summary = Some(summary), ![id].updated_at = t]
    ELSE S

JobService_fail_job(S, id, error, t) ==
    IF JobService_Writable(S, id)
    THEN [S EXCEPT ![id].status = "failed", ![id].error = Some(error),
                   ![id].updated_at = t]
    ELSE S

\* cancel(id) -> bool : <<store afterwards, success>>
JobService_cancel_job(S, id, t) ==
    IF id \in DOMAIN S /\ S[id].status \in {"pending", "running"}
    THEN <<[S EXCEPT ![id].status = "cancelled", ![id].updated_at = t], TRUE>>
    ELSE <<S, FALSE>>

\* delete(id) -> bool
JobService_delete_job(S, id) ==
    IF id \in DOMAIN S
    THEN <<[k \in DOMAIN S \ {id} |-> S[k]], TRUE>>
    ELSE <<S, FALSE>>

\* mutant: the sweep takes every Job last updated before the threshold,
\* whatever its status
Swept_any_status(S, max_age_days, t) ==
    {k \in DOMAIN S : S[k].updated_at < t - max_age_days}

\* cleanup(maxAgeDays) -> count
Swept(S, max_age_days, t) ==
    {k \in DOMAIN S : S[k].status \in Terminal
                      /\ S[k].updated_at < t - max_age_days}

JobService_cleanup_old_jobs(S, max_age_days, t) ==
    <<[k \in DOMAIN S \ Swept(S, max_age_days, t) |-> S[k]],
      Cardinality(Swept(S, max_age_days, t))>>

\* the ids of a set of Jobs, most recently created first
RECURSIVE NewestFirst(_, _)
NewestFirst(S, ids) ==
    IF ids = {} THEN <<>>
    ELSE LET first == CHOOSE k \in ids :
                        \A l \in ids :
                            \/ S[l].created_at < S[k].created_at
                            \/ (S[l].created_at = S[k].created_at /\ l <= k)
         IN  <<first>> \o NewestFirst(S, ids \ {first})

\* list(page, pageSize, statusFilter?, tagFilter?) -> {items, totalCount, page,
\* pageSize}; "" stands for an absent filter
JobService_list_jobs(S, page, page_size, status_filter, tag_filter) ==
    LET matching == {k \in DOMAIN S :
                        /\ status_filter = "" \/ S[k].status = status_filter
                        /\ tag_filter = "" \/ tag_filter \in S[k].tags}
        ordered == NewestFirst(S, matching)
        from == (page - 1) * page_size + 1
        to == Min(page * page_size, Len(ordered))
    IN  [jobs      |-> [k \in 1..(IF to < from THEN 0 ELSE to - from + 1) |->
                          S[ordered[from + k - 1]]],
         total     |-> Cardinality(matching),
         page      |-> page,
         page_size |-> page_size]

\* stats() -> {countsByStatus, totalJobs}
JobService_get_job_stats(S) ==
    [total_jobs |-> Cardinality(DOMAIN S),
     by_status  |-> [st \in {"pending", "running"} \cup Terminal |->
                        Cardinality({k \in DOMAIN S : S[k].status = st})]]

\* ------------------------------------------------------- DeepEvalService
\* One evaluation outcome per test case; tc identifies the test case by its
\* position in the request.
Result(tc, ok) == [tc |-> tc, overall_success |-> ok]

\* success rate successful/total as a fraction <<numerator, denominator>>;
\* 0 when total = 0.
Rate(successful, total) ==
    IF total = 0 THEN <<0, 1>> ELSE <<successful, total>>

Successful(results) ==
    Cardinality({k \in 1..Len(results) : results[k].overall_success})

DeepEvalService_calculate_summary(results) ==
    [total_test_cases      |-> Len(results),
     successful_test_cases |-> Successful(results),
     failed_test_cases     |-> Len(results) - Successful(results),
     success_rate          |-> Rate(Successful(results), Len(results))]

\* Every way evaluate_bulk can answer for the batch of test cases
\* first+1 .. first+len: one result per test case, in input order.
BatchOutcomes(first, len) ==
    {[k \in 1..len |-> Result(first + k, ok[k])] : ok \in [1..len -> BOOLEAN]}

\* ---------------------------------------------------------------- inputs
\* request.max_concurrent: 0 stands for "not given"
ConcChoices == 0..MaxConc \cup {BatchCap + 1}

FileSizes == (max_file_size - 1)..(max_file_size + 1)

FileFormats == {"auto", "csv", "json", "xml"}

Extensions == {"csv", "json", "jsonl", "txt"}

JobIds == 1..MaxJobs

\* ----------------------------------------------------------- conveniences
\* An HTTP response: the handler, the job id it names, the status code, the
\* status field of an AsyncEvaluationResponse, the size of the uploaded file
\* of the request, and the count a cleanup reports.
Response(op, id, code, status, size, deleted_count) ==
    [op |-> op, id |-> id, code |-> code, status |-> status, size |-> size,
     deleted_count |-> deleted_count]

Store == jobs[evaluation_job_service]

\* A call issued by a runner: the operation, the source line of the call, its
\* two leading integer arguments, and whether the store took the write (calls
\* to the Evaluator and the parser are always taken).
Call(op, line, a, b, applied) ==
    [op |-> op, line |-> line, a |-> a, b |-> b, applied |-> applied]

Taken(id) == JobService_Writable(jobs[evaluation_job_service], id)

Log(id, calls) == [trace EXCEPT ![id] = @ \o calls]

Write(S) == [jobs EXCEPT ![evaluation_job_service] = S]

Task(type, n, max_concurrent, file_format, ext) ==
    [type |-> type, pc |-> "status", n |-> n,
     max_concurrent |-> max_concurrent, batch_size |-> 0, i |-> 0,
     results |-> <<>>, error |-> "",
     file_format |-> file_format, ext |-> ext]

Finished(r) == [r EXCEPT !.pc = "done", !.results = <<>>, !.error = ""]

At(id, type, pc) ==
    /\ id \in DOMAIN runner
    /\ runner[id].type = type
    /\ runner[id].pc = pc

\* mutant: the endpoint dispatches the task without creating the Job
Accept_dispatch_only(op, size, metadata, task) ==
    /\ nextId <= MaxJobs
    /\ runner' = [k \in DOMAIN runner \cup {nextId} |->
                    IF k = nextId THEN task ELSE runner[k]]
    /\ trace' = [k \in DOMAIN trace \cup {nextId} |->
                    IF k = nextId THEN <<>> ELSE trace[k]]
    /\ nextId' = nextId + 1
    /\ response' = Response(op, nextId, 200, "pending", size, 0)
    /\ UNCHANGED <<jobs, now>>

\* create_job followed by background_tasks.add_task
Accept(op, size, metadata, task) ==
    /\ nextId <= MaxJobs
    /\ jobs' = Write(JobService_create_job(Store, nextId, {}, metadata, now))
    /\ runner' = [k \in DOMAIN runner \cup {nextId} |->
                    IF k = nextId THEN task ELSE runner[k]]
    /\ trace' = [k \in DOMAIN trace \cup {nextId} |->
                    IF k = nextId THEN <<>> ELSE trace[k]]
    /\ nextId' = nextId + 1
    /\ response' = Response(op, nextId, 200, "pending", size, 0)
    /\ UNCHANGED now

\* ------------------------------------------------------------ app/auth.py
\* What a request carries: a bearer token ("none": no Authorization header;
\* "invalid" and "expired" are tokens verify_token rejects),
\* an X-API-Key header ("none": no such header), and whether the API user
\* AuthService is configured with holds the admin scope.
Tokens == {"none", "invalid", "expired", "user", "admin"}

ApiKeys == {"none", "invalid", "key"}

Credentials == [token : Tokens, api_key : ApiKeys, api_admin : BOOLEAN]

User(username, scopes) == [username |-> username, scopes |-> scopes]

\* AuthService.verify_token and get_user_by_token: the user of a token, None
\* when they raise
AuthService_verify_token(token) ==
    IF token = "user" THEN Some(User("user", {"read", "write"}))
    ELSE IF token = "admin" THEN Some(User("admin", {"read", "write", "admin"}))
    ELSE None

AuthService_validate_api_key(api_key) == api_key = "key"

AuthService_get_api_user(api_admin) ==
    User("api", IF api_admin THEN {"read", "write", "admin"} ELSE {"read", "write"})

get_current_user_from_token(token) ==
    IF token = "none" THEN None ELSE AuthService_verify_token(token)

\* mutant: any X-API-Key header is taken for the API user's
get_current_user_from_api_key_unvalidated(api_key, api_admin) ==
    IF api_key = "none" THEN None
    ELSE Some(AuthService_get_api_user(api_admin))

get_current_user_from_api_key(api_key, api_admin) ==
    IF api_key = "none" THEN None
    ELSE IF AuthService_validate_api_key(api_key)
    THEN Some(AuthService_get_api_user(api_admin))
    ELSE None

\* mutant: the API-key user is preferred to the token user
get_current_user_api_key_first(cred) ==
    LET user_from_token == get_current_user_from_token(cred.token)
        user_from_api_key ==
            get_current_user_from_api_key(cred.api_key, cred.api_admin)
        user == IF user_from_api_key /= None THEN user_from_api_key
                                             ELSE user_from_token
    IN  [code |-> IF user = None THEN 401 ELSE 200, user |-> user]

\* the dependency of every handler: the user, or the status code raised
get_current_user(cred) ==
    LET user_from_token == get_current_user_from_token(cred.token)
        user_from_api_key ==
            get_current_user_from_api_key(cred.api_key, cred.api_admin)
        user == IF user_from_token /= None THEN user_from_token
                                           ELSE user_from_api_key
    IN  [code |-> IF user = None THEN 401 ELSE 200, user |-> user]

get_current_admin_user(cred) ==
    LET current_user == get_current_user(cred)
    IN  IF current_user.code /= 200 THEN current_user
        ELSE IF \E u \in current_user.user : "admin" \notin u.scopes
        THEN [code |-> 403, user |-> None]
        ELSE current_user

\* What the two dependencies make of the credentials a request can carry:
\* <<code of get_current_user, code of get_current_admin_user>>
Resolution(cred) ==
    <<get_current_user(cred).code, get_current_admin_user(cred).code>>

Resolutions == {Resolution(cred) : cred \in Credentials}

\* Depends(dependency): the handler runs only if the dependency resolved
\* (code 200); otherwise the request is answered with the code it raised.
Depends(code, op, handler) ==
    IF code /= 200
    THEN /\ response' = Response(op, 0, code, "", 0, 0)
         /\ UNCHANGED <<jobs, nextId, runner, trace, now>>
    ELSE handler

\* ------------------------------------------------ app/api/evaluation.py
Init ==
    /\ jobs = [s \in Services |-> <<>>]
    /\ nextId = 1
    /\ runner = <<>>
    /\ trace = <<>>
    /\ now = 0
    /\ response = Response("", 0, 0, "", 0, 0)

\* mutant: the handler answers 200 whether or not the Evaluator raised
SyncCode_swallowed(raised) == 200

\* except Exception as e: raise HTTPException(status_code=500, ...)
SyncCode(raised) == IF raised THEN 500 ELSE 200

\* a synchronous handler whose Evaluator call returned or raised
Synchronous(op, raised) ==
    /\ response' = Response(op, 0, SyncCode(raised), "", 0, 0)
    /\ UNCHANGED <<jobs, nextId, runner, trace, now>>

\* POST /evaluate/
evaluate_single == \E raised \in BOOLEAN : Synchronous("evaluate_single", raised)

\* POST /evaluate/bulk
evaluate_bulk == \E raised \in BOOLEAN : Synchronous("evaluate_bulk", raised)

evaluate_async ==
    Accept("evaluate_async", 0,
           [type |-> "single", test_case_count |-> None],
           Task("single", 1, 0, "", ""))

evaluate_bulk_async ==
    \E n \in 0..MaxN, mc \in ConcChoices :
        Accept("evaluate_bulk_async", 0,
               [type |-> "bulk", test_case_count |-> Some(n)],
               Task("bulk", n, mc, "", ""))

\* mutant: the size is checked after the Job has been created
evaluate_dataset_checks_late ==
    \E size \in FileSizes, ff \in FileFormats, ext \in Extensions :
        IF size > max_file_size
        THEN /\ nextId <= MaxJobs
             /\ jobs' = Write(JobService_create_job(Store, nextId, {},
                            [type |-> "dataset", test_case_count |-> None], now))
             /\ nextId' = nextId + 1
             /\ response' = Response("evaluate_dataset", 0, 413, "", size, 0)
             /\ UNCHANGED <<runner, trace, now>>
        ELSE Accept("evaluate_dataset", size,
                    [type |-> "dataset", test_case_count |-> None],
                    Task("dataset", 0, 0, ff, ext))

evaluate_dataset ==
    \E size \in FileSizes, ff \in FileFormats, ext \in Extensions :
        IF size > max_file_size
        THEN /\ response' = Response("evaluate_dataset", 0, 413, "", size, 0)
             /\ UNCHANGED <<jobs, nextId, runner, trace, now>>
        ELSE Accept("evaluate_dataset", size,
                    [type |-> "dataset", test_case_count |-> None],
                    Task("dataset", 0, 0, ff, ext))

\* mutant: batch_size = request.max_concurrent or 10, without the cap
batch_size_uncapped(max_concurrent) ==
    IF max_concurrent = 0 THEN 10 ELSE max_concurrent

\* batch_size = min(request.max_concurrent or 10, 10)
batch_size(max_concurrent) ==
    Min(IF max_concurrent = 0 THEN 10 ELSE max_concurrent, BatchCap)

\* len(request.test_cases[i:i + batch_size])
BatchLen(i, bs, n) == Min(i + bs, n) - i

\* mutant: completed = i + batch_size, not capped at total_tests
ChunkCompleted_uncapped(i, bs, n) == i + bs

\* completed = min(i + batch_size, total_tests)
ChunkCompleted(i, bs, n) == Min(i + bs, n)

\* mutant: the loop advances by one test case instead of one batch
NextIndex_by_one(i, bs) == i + 1

\* the next index of range(0, total_tests, batch_size)
NextIndex(i, bs) == i + bs

\* mutant: results = batch_data["results"], the earlier chunks are lost
Extend_overwrite(results, batch_data) == batch_data

\* results.extend(batch_data["results"])
Extend(results, batch_data) == results \o batch_data

\* mutant: the runner marks the Job completed when it starts
Dispatched_completed == "completed"

\* the status the runners write on dispatch
Dispatched == "running"

\* mutant: the loop body is entered once more when the range is exhausted
LoopAt_inclusive(r, i) ==
    IF i <= r.n THEN [r EXCEPT !.i = i, !.pc = "evaluate"]
                ELSE [r EXCEPT !.i = i, !.pc = "complete"]

\* for i in range(0, total_tests, batch_size): the runner on entering the
\* loop body at index i, or leaving the loop when the range is exhausted
LoopAt(r, i) ==
    IF i < r.n THEN [r EXCEPT !.i = i, !.pc = "evaluate"]
               ELSE [r EXCEPT !.i = i, !.pc = "complete"]

\* the Evaluator call issued on entering the loop body at index i
LoopCalls(r, i) ==
    IF i < r.n THEN <<Call("evaluate_bulk", 220, i, BatchLen(i, r.batch_size, r.n), TRUE)>>
               ELSE <<>>

\* EvaluationSummary of a single result (evaluation.py 191-197)
SingleSummary(result) ==
    [total_test_cases      |-> 1,
     successful_test_cases |-> IF result.overall_success THEN 1 ELSE 0,
     failed_test_cases     |-> IF result.overall_success THEN 0 ELSE 1,
     success_rate          |-> IF result.overall_success THEN <<1, 1>> ELSE <<0, 1>>]

\* One store call of a runner: the call's effect, the runner afterwards and
\* the calls logged (the store call, then any Evaluator call issued before
\* the runner suspends again).
Step(id, S, r, calls) ==
    /\ jobs' = Write(S)
    /\ runner' = [runner EXCEPT ![id] = r]
    /\ trace' = Log(id, calls)
    /\ UNCHANGED <<nextId, now, response>>

\* An external call (Evaluator, parser) of a runner returns or raises; events
\* is empty for a return and the exception caught for a raise.
Resume(id, r, events) ==
    /\ runner' = [runner EXCEPT ![id] = r]
    /\ trace' = Log(id, events)
    /\ UNCHANGED <<jobs, nextId, now, response>>

\* except Exception as e: at the given line, for the call at index a
Raised(line, a) == <<Call("raised", line, a, 0, TRUE)>>

\* ---- _run_async_single_evaluation
SingleStatus(id) ==
    /\ At(id, "single", "status")
    /\ Step(id, JobService_update_job_status(Store, id, Dispatched, now),
            [runner[id] EXCEPT !.pc = "start"],
            <<Call("update_job_status", 179, 0, 0, Taken(id))>>)

SingleStart(id) ==
    /\ At(id, "single", "start")
    /\ Step(id, JobService_update_job_progress(Store, id, 0, 1,
                                               "Starting evaluation...", now),
            [runner[id] EXCEPT !.pc = "evaluate"],
            <<Call("update_job_progress", 180, 0, 1, Taken(id)),
              Call("evaluate_single", 182, 0, 1, TRUE)>>)

SingleEvalReturns(id) ==
    /\ At(id, "single", "evaluate")
    /\ \E ok \in BOOLEAN :
          Resume(id, [runner[id] EXCEPT !.results = <<Result(1, ok)>>,
                                        !.pc = "progress"], <<>>)

SingleEvalRaises(id) ==
    /\ At(id, "single", "evaluate")
    /\ Resume(id, [runner[id] EXCEPT !.error = "evaluator error", !.pc = "fail"],
              Raised(201, 0))

\* mutant: the progress written after the evaluation still says 0 of 1
SingleProgress_stale(id) ==
    /\ At(id, "single", "progress")
    /\ Step(id, JobService_update_job_progress(Store, id, 0, 1,
                                               "Evaluation completed", now),
            [runner[id] EXCEPT !.pc = "complete"],
            <<Call("update_job_progress", 187, 0, 1, Taken(id))>>)

SingleProgress(id) ==
    /\ At(id, "single", "progress")
    /\ Step(id, JobService_update_job_progress(Store, id, 1, 1,
                                               "Evaluation completed", now),
            [runner[id] EXCEPT !.pc = "complete"],
            <<Call("update_job_progress", 187, 1, 1, Taken(id))>>)

SingleComplete(id) ==
    /\ At(id, "single", "complete")
    /\ Step(id, JobService_complete_job(Store, id, runner[id].results,
                                        SingleSummary(runner[id].results[1]), now),
            Finished(runner[id]),
            <<Call("complete_job", 199, 0, 0, Taken(id))>>)

\* mutant: the exception escapes the task, nothing is written to the Job
SingleFail_escapes(id) ==
    /\ At(id, "single", "fail")
    /\ Resume(id, Finished(runner[id]), <<>>)

SingleFail(id) ==
    /\ At(id, "single", "fail")
    /\ Step(id, JobService_fail_job(Store, id, runner[id].error, now),
            Finished(runner[id]),
            <<Call("fail_job", 202, 0, 0, Taken(id))>>)

_run_async_single_evaluation(id) ==
    \/ SingleStatus(id)
    \/ SingleStart(id)
    \/ SingleEvalReturns(id)
    \/ SingleEvalRaises(id)
    \/ SingleProgress(id)
    \/ SingleComplete(id)
    \/ SingleFail(id)

\* ---- _run_async_bulk_evaluation
BulkStatus(id) ==
    /\ At(id, "bulk", "status")
    /\ Step(id, JobService_update_job_status(Store, id, Dispatched, now),
            [runner[id] EXCEPT !.pc = "start"],
            <<Call("update_job_status", 208, 0, 0, Taken(id))>>)

\* mutant: the initial progress is written with total 0
BulkStart_total_unknown(id) ==
    LET r == [runner[id] EXCEPT !.batch_size = batch_size(runner[id].max_concurrent)]
    IN  /\ At(id, "bulk", "start")
        /\ Step(id, JobService_update_job_progress(Store, id, 0, 0,
                                                   "Starting bulk evaluation...", now),
                LoopAt(r, 0),
                <<Call("update_job_progress", 210, 0, 0, Taken(id))>> \o LoopCalls(r, 0))

BulkStart(id) ==
    LET r == [runner[id] EXCEPT !.batch_size = batch_size(runner[id].max_concurrent)]
    IN  /\ At(id, "bulk", "start")
        /\ Step(id, JobService_update_job_progress(Store, id, 0, r.n,
                                                   "Starting bulk evaluation...", now),
                LoopAt(r, 0),
                <<Call("update_job_progress", 210, 0, r.n, Taken(id))>> \o LoopCalls(r, 0))

BulkEvalReturns(id) ==
    LET r == runner[id]
    IN  /\ At(id, "bulk", "evaluate")
        /\ \E batch_data \in BatchOutcomes(r.i, BatchLen(r.i, r.batch_size, r.n)) :
              Resume(id, [r EXCEPT !.results = Extend(@, batch_data),
                                    !.pc = "progress"], <<>>)

BulkEvalRaises(id) ==
    /\ At(id, "bulk", "evaluate")
    /\ Resume(id, [runner[id] EXCEPT !.error = "evaluator error", !.pc = "fail"],
              Raised(240, runner[id].i))

\* mutant: the per-chunk progress goes to the first Job, whichever Job the
\* task runs for
BulkProgress_first_job(id) ==
    LET r == runner[id]
        completed == ChunkCompleted(r.i, r.batch_size, r.n)
    IN  /\ At(id, "bulk", "progress")
        /\ Step(id, JobService_update_job_progress(Store, 1, completed, r.n,
                                                   "Processed", now),
                LoopAt(r, NextIndex(r.i, r.batch_size)),
                <<Call("update_job_progress", 230, completed, r.n, Taken(1))>>
                    \o LoopCalls(r, NextIndex(r.i, r.batch_size)))

BulkProgress(id) ==
    LET r == runner[id]
        completed == ChunkCompleted(r.i, r.batch_size, r.n)
    IN  /\ At(id, "bulk", "progress")
        /\ Step(id, JobService_update_job_progress(Store, id, completed, r.n,
                                                   "Processed", now),
                LoopAt(r, NextIndex(r.i, r.batch_size)),
                <<Call("update_job_progress", 230, completed, r.n, Taken(id))>>
                    \o LoopCalls(r, NextIndex(r.i, r.batch_size)))

BulkComplete(id) ==
    /\ At(id, "bulk", "complete")
    /\ Step(id, JobService_complete_job(Store, id, runner[id].results,
                    DeepEvalService_calculate_summary(runner[id].results), now),
            Finished(runner[id]),
            <<Call("complete_job", 238, 0, 0, Taken(id))>>)

\* mutant: the except branch completes the Job with the partial results
BulkFail_completes(id) ==
    /\ At(id, "bulk", "fail")
    /\ Step(id, JobService_complete_job(Store, id, runner[id].results,
                    DeepEvalService_calculate_summary(runner[id].results), now),
            Finished(runner[id]),
            <<Call("complete_job", 241, 0, 0, Taken(id))>>)

BulkFail(id) ==
    /\ At(id, "bulk", "fail")
    /\ Step(id, JobService_fail_job(Store, id, runner[id].error, now),
            Finished(runner[id]),
            <<Call("fail_job", 241, 0, 0, Taken(id))>>)

_run_async_bulk_evaluation(id) ==
    \/ BulkStatus(id)
    \/ BulkStart(id)
    \/ BulkEvalReturns(id)
    \/ BulkEvalRaises(id)
    \/ BulkProgress(id)
    \/ BulkComplete(id)
    \/ BulkFail(id)

\* ---- _parse_dataset_file: the format decided at lines 289-296
DetectFormat(file_format, ext) ==
    IF file_format = "auto"
    THEN IF ext = "csv" THEN "csv"
         ELSE IF ext \in {"json", "jsonl"} THEN "json"
         ELSE "undetermined"
    ELSE file_format

\* the ValueError raised for the format, if any (lines 296 and 313)
FormatError(file_format, ext) ==
    IF DetectFormat(file_format, ext) = "undetermined"
    THEN Some("Could not determine file format. Please specify file_format.")
    ELSE IF DetectFormat(file_format, ext) \notin {"csv", "json"}
    THEN Some("Unsupported file format")
    ELSE None

\* ---- _run_async_dataset_evaluation
DatasetStatus(id) ==
    /\ At(id, "dataset", "status")
    /\ Step(id, JobService_update_job_status(Store, id, Dispatched, now),
            [runner[id] EXCEPT !.pc = "start"],
            <<Call("update_job_status", 251, 0, 0, Taken(id))>>)

DatasetStart(id) ==
    /\ At(id, "dataset", "start")
    /\ Step(id, JobService_update_job_progress(Store, id, 0, 100,
                                               "Processing dataset file...", now),
            [runner[id] EXCEPT !.pc = "parse"],
            <<Call("update_job_progress", 252, 0, 100, Taken(id)),
              Call("_parse_dataset_file", 256, 0, 0, TRUE)>>)

DatasetParseReturns(id) ==
    LET r == runner[id]
    IN  /\ At(id, "dataset", "parse")
        /\ FormatError(r.file_format, r.ext) = None
        /\ \E rows \in 0..MaxN :
              Resume(id, [r EXCEPT !.n = rows, !.pc = "parsed",
                                     !.file_format = "", !.ext = ""], <<>>)

\* mutant: the parser's exception is swallowed and the task goes on with no
\* test cases
DatasetParseRaises_swallowed(id) ==
    LET r == runner[id]
    IN  /\ At(id, "dataset", "parse")
        /\ Resume(id, [r EXCEPT !.n = 0, !.pc = "parsed",
                               !.file_format = "", !.ext = ""],
                  Raised(278, 0))

DatasetParseRaises(id) ==
    LET r == runner[id]
    IN  /\ At(id, "dataset", "parse")
        /\ \E e \in (IF FormatError(r.file_format, r.ext) = None
                     THEN {"parse error"}
                     ELSE FormatError(r.file_format, r.ext)) :
              Resume(id, [r EXCEPT !.error = e, !.pc = "fail",
                                     !.file_format = "", !.ext = ""],
                     Raised(278, 0))

DatasetParsed(id) ==
    LET r == runner[id]
    IN  /\ At(id, "dataset", "parsed")
        /\ Step(id, JobService_update_job_progress(Store, id, 10, 100, "Parsed", now),
                [r EXCEPT !.pc = "evaluate"],
                <<Call("update_job_progress", 259, 10, 100, Taken(id)),
                  Call("evaluate_bulk", 264, 0, r.n, TRUE)>>)

DatasetEvalReturns(id) ==
    LET r == runner[id]
    IN  /\ At(id, "dataset", "evaluate")
        /\ \E evaluation_data \in BatchOutcomes(0, r.n) :
              Resume(id, [r EXCEPT !.results = evaluation_data, !.pc = "finalize"],
                     <<>>)

DatasetEvalRaises(id) ==
    /\ At(id, "dataset", "evaluate")
    /\ Resume(id, [runner[id] EXCEPT !.error = "evaluator error", !.pc = "fail"],
              Raised(278, 0))

DatasetFinalize(id) ==
    /\ At(id, "dataset", "finalize")
    /\ Step(id, JobService_update_job_progress(Store, id, 90, 100,
                                               "Finalizing results...", now),
            [runner[id] EXCEPT !.pc = "complete"],
            <<Call("update_job_progress", 270, 90, 100, Taken(id))>>)

DatasetComplete(id) ==
    /\ At(id, "dataset", "complete")
    /\ Step(id, JobService_complete_job(Store, id, runner[id].results,
                    DeepEvalService_calculate_summary(runner[id].results), now),
            Finished(runner[id]),
            <<Call("complete_job", 272, 0, 0, Taken(id))>>)

DatasetFail(id) ==
    /\ At(id, "dataset", "fail")
    /\ Step(id, JobService_fail_job(Store, id, runner[id].error, now),
            Finished(runner[id]),
            <<Call("fail_job", 279, 0, 0, Taken(id))>>)

_run_async_dataset_evaluation(id) ==
    \/ DatasetStatus(id)
    \/ DatasetStart(id)
    \/ DatasetParseReturns(id)
    \/ DatasetParseRaises(id)
    \/ DatasetParsed(id)
    \/ DatasetEvalReturns(id)
    \/ DatasetEvalRaises(id)
    \/ DatasetFinalize(id)
    \/ DatasetComplete(id)
    \/ DatasetFail(id)

\* ------------------------------------------------------ app/api/jobs.py
JobsStore == jobs[jobs_job_service]

JobsWrite(S) == [jobs EXCEPT ![jobs_job_service] = S]

Reply(op, id, code) == Response(op, id, code, "", 0, 0)

\* mutant: the handler does not pass the status filter on
list_jobs_unfiltered(page, page_size, status, tag) ==
    JobService_list_jobs(JobsStore, page, page_size, "", tag)

\* GET /jobs
list_jobs(page, page_size, status, tag) ==
    JobService_list_jobs(JobsStore, page, page_size, status, tag)

\* the JobListResponse sent for a list request
ListReply(body) ==
    [op |-> "list_jobs", id |-> 0, code |-> 200, status |-> "", size |-> 0,
     deleted_count |-> 0, body |-> body]

\* GET /jobs answered
list_jobs_request(page, page_size, status, tag) ==
    /\ response' = ListReply(list_jobs(page, page_size, status, tag))
    /\ UNCHANGED <<jobs, nextId, runner, trace, now>>

\* GET /jobs/{job_id}
get_job(id) ==
    IF JobService_get_job(JobsStore, id) = None
    THEN [code |-> 404, job |-> None]
    ELSE [code |-> 200, job |-> JobService_get_job(JobsStore, id)]

\* GET /jobs/stats/summary
get_job_stats == JobService_get_job_stats(JobsStore)

\* mutant: the handler does not look at the result of the cancel
cancel_job_ignores_result ==
    \E id \in JobIds :
        LET res == JobService_cancel_job(JobsStore, id, now)
        IN  /\ jobs' = JobsWrite(res[1])
            /\ response' = Reply("cancel_job", id, 200)
            /\ UNCHANGED <<nextId, runner, trace, now>>

\* GET /jobs/{job_id} answered
get_job_request ==
    \E id \in JobIds :
        /\ response' = Reply("get_job", id, get_job(id).code)
        /\ UNCHANGED <<jobs, nextId, runner, trace, now>>

\* GET /jobs/stats/summary answered
get_job_stats_request ==
    /\ response' = Reply("get_job_stats", 0, 200)
    /\ UNCHANGED <<jobs, nextId, runner, trace, now>>

\* POST /jobs/{job_id}/cancel for the job id given
CancelJob(id) ==
    LET res == JobService_cancel_job(JobsStore, id, now)
    IN  /\ jobs' = JobsWrite(res[1])
        /\ response' = Reply("cancel_job", id, IF res[2] THEN 200 ELSE 400)
        /\ UNCHANGED <<nextId, runner, trace, now>>

\* POST /jobs/{job_id}/cancel
cancel_job == \E id \in JobIds : CancelJob(id)

\* mutant: the handler does not look at the result of the delete
delete_job_ignores_result ==
    \E id \in JobIds :
        LET res == JobService_delete_job(JobsStore, id)
        IN  /\ jobs' = JobsWrite(res[1])
            /\ response' = Reply("delete_job", id, 200)
            /\ UNCHANGED <<nextId, runner, trace, now>>

\* DELETE /jobs/{job_id}
delete_job ==
    \E id \in JobIds :
        LET res == JobService_delete_job(JobsStore, id)
        IN  /\ jobs' = JobsWrite(res[1])
            /\ response' = Reply("delete_job", id, IF res[2] THEN 200 ELSE 404)
            /\ UNCHANGED <<nextId, runner, trace, now>>

\* POST /jobs/cleanup
cleanup_old_jobs ==
    \E max_age_days \in 1..MaxTime :
        LET res == JobService_cleanup_old_jobs(JobsStore, max_age_days, now)
        IN  /\ jobs' = JobsWrite(res[1])
            /\ response' = Response("cleanup_old_jobs", 0, 200, "", 0, res[2])
            /\ UNCHANGED <<nextId, runner, trace, now>>

\* -------------------------------------------------------- app/api/auth.py
\* The answer of an identity endpoint to a request carrying cred: the code,
\* and in a 200 answer the user get_current_user resolved.
Whoami(op, cred) ==
    LET current_user == get_current_user(cred)
    IN  [op |-> op, request |-> cred, code |-> current_user.code,
         valid |-> (op = "validate_token" /\ current_user.code = 200),
         user |-> current_user.user]

\* GET /auth/me
read_users_me ==
    \E cred \in Credentials :
        /\ response' = Whoami("read_users_me", cred)
        /\ UNCHANGED <<jobs, nextId, runner, trace, now>>

\* POST /auth/validate-token
validate_token ==
    \E cred \in Credentials :
        /\ response' = Whoami("validate_token", cred)
        /\ UNCHANGED <<jobs, nextId, runner, trace, now>>

\* a day passes
Tick ==
    /\ now < MaxTime
    /\ now' = now + 1
    /\ UNCHANGED <<jobs, nextId, runner, trace, response>>

\* --------------------------------------------------------- specification
\* the steps of the background tasks
Runner(id) ==
    \/ _run_async_single_evaluation(id)
    \/ _run_async_bulk_evaluation(id)
    \/ _run_async_dataset_evaluation(id)

\* the API and its background tasks, the clock standing still
Next ==
    \/ evaluate_async
    \/ evaluate_bulk_async
    \/ evaluate_dataset
    \/ \E id \in JobIds : _run_async_single_evaluation(id)
    \/ \E id \in JobIds : _run_async_bulk_evaluation(id)
    \/ \E id \in JobIds : _run_async_dataset_evaluation(id)
    \/ cancel_job
    \/ delete_job

Spec == Init /\ [][Next]_vars

\* the same with days passing and the retention sweep
NextClock ==
    \/ Next
    \/ cleanup_old_jobs
    \/ Tick

SpecClock == Init /\ [][NextClock]_vars

\* Every background task that can take a step eventually takes one: the event
\* loop runs each task, and every Evaluator and parser call returns or raises.
FairSpec == Spec /\ \A id \in JobIds : WF_vars(Runner(id))

\* ---- listing: a store of up to MaxListed Jobs, created one after the other
\* through the async endpoints, some carrying the tag "t", some cancelled
\* before their background task started, read page by page.
Pages == 1..MaxPage

PageSizes == 1..MaxPage

StatusFilters == {"", "pending", "cancelled"}

TagFilters == {"", "t"}

ListedJob(id, d) ==
    [NewJob(id, d.tags, [type |-> "single", test_case_count |-> None], d.created_at)
        EXCEPT !.status = d.status]

ListedStores ==
    UNION {{[id \in 1..K |-> ListedJob(id, d[id])] :
              d \in {e \in [1..K -> [created_at : 0..MaxTime,
                                      status : {"pending", "cancelled"},
                                      tags : {{}, {"t"}}]] :
                        \A k \in 1..K, l \in 1..K :
                            k < l => e[k].created_at <= e[l].created_at}} :
           K \in 0..MaxListed}

InitList ==
    /\ \E S \in ListedStores :
          /\ jobs = [s \in Services |-> S]
          /\ nextId = Len(S) + 1
          /\ runner = [id \in DOMAIN S |-> Task("single", 1, 0, "", "")]
          /\ trace = [id \in DOMAIN S |-> <<>>]
    /\ now = MaxTime
    /\ response = Response("", 0, 0, "", 0, 0)

NextList ==
    \E page \in Pages, page_size \in PageSizes,
       status \in StatusFilters, tag \in TagFilters :
        list_jobs_request(page, page_size, status, tag)

SpecList == InitList /\ [][NextList]_vars

\* ---- the routes behind their dependencies: a request to any evaluation or
\* job endpoint (GET /jobs with its default query) whose credentials make
\* get_current_user answer current_user and get_current_admin_user answer
\* current_admin_user
Routes(current_user, current_admin_user) ==
    \/ Depends(current_user, "evaluate_single", evaluate_single)
    \/ Depends(current_user, "evaluate_bulk", evaluate_bulk)
    \/ Depends(current_user, "evaluate_async", evaluate_async)
    \/ Depends(current_user, "evaluate_bulk_async", evaluate_bulk_async)
    \/ Depends(current_user, "evaluate_dataset", evaluate_dataset)
    \/ Depends(current_user, "list_jobs", list_jobs_request(1, 20, "", ""))
    \/ Depends(current_user, "get_job", get_job_request)
    \/ Depends(current_user, "cancel_job", cancel_job)
    \/ Depends(current_user, "delete_job", delete_job)
    \/ Depends(current_user, "get_job_stats", get_job_stats_request)
    \/ Depends(current_admin_user, "cleanup_old_jobs", cleanup_old_jobs)

\* The API as any client sees it, with or without credentials, and its
\* background tasks, the clock standing still. Spec is the behaviours of
\* NextAuth in which every request carries credentials that resolve and no
\* request is a read, a synchronous evaluation or a sweep.
NextAuth ==
    \/ \E resolved \in Resolutions : Routes(resolved[1], resolved[2])
    \/ \E id \in JobIds : Runner(id)

SpecAuth == Init /\ [][NextAuth]_vars

\* ---- side by side: MaxRunning async requests (single, or bulk with two test
\* cases evaluated one at a time) have been accepted one after the other and
\* none of their background tasks has started; the tasks then run
\* interleaved, and any of the Jobs can be cancelled at any time.
RunningJobs == 1..MaxRunning

RunningTasks == {Task("single", 1, 0, "", ""), Task("bulk", 2, 1, "", "")}

\* the metadata the endpoint gives the Job of a task
Metadata(task) ==
    [type |-> task.type,
     test_case_count |-> IF task.type = "bulk" THEN Some(task.n) ELSE None]

InitRunning ==
    \E tasks \in [RunningJobs -> RunningTasks] :
        /\ jobs = [s \in Services |->
                     [id \in RunningJobs |-> NewJob(id, {}, Metadata(tasks[id]), 0)]]
        /\ nextId = MaxRunning + 1
        /\ runner = tasks
        /\ trace = [id \in RunningJobs |-> <<>>]
        /\ now = 0
        /\ response = Response(IF tasks[MaxRunning].type = "bulk"
                                  THEN "evaluate_bulk_async" ELSE "evaluate_async",
                               MaxRunning, 200, "pending", 0, 0)

NextRunning ==
    \/ \E id \in RunningJobs : _run_async_single_evaluation(id)
    \/ \E id \in RunningJobs : _run_async_bulk_evaluation(id)
    \/ \E id \in RunningJobs : CancelJob(id)

SpecRunning == InitRunning /\ [][NextRunning]_vars

\* The identity endpoints: each request is answered with what the dependency
\* made of its credentials.
NextIdentity ==
    \/ read_users_me
    \/ validate_token
    \/ Tick

SpecIdentity == Init /\ [][NextIdentity]_vars

TypeOK ==
    /\ nextId \in 1..(MaxJobs + 1)
    /\ now \in 0..MaxTime
    /\ DOMAIN runner = 1..(nextId - 1)
    /\ DOMAIN trace = DOMAIN runner
    /\ \A s \in Services : DOMAIN jobs[s] \subseteq DOMAIN runner

\* ------------------------------------------------------------ properties
Job(id) == Store[id]

Exists(id) == id \in DOMAIN Store

Calls(id, op) == {k \in 1..Len(trace[id]) : trace[id][k].op = op}

CallsAt(id, line) == {k \in 1..Len(trace[id]) : trace[id][k].line = line}

Transitions ==
    {<<"pending", "running">>, <<"running", "completed">>, <<"running", "failed">>,
     <<"pending", "cancelled">>, <<"running", "cancelled">>}

\* C1: a Job is created pending, every change of its status is one of
\* pending->running, running->completed, running->failed, pending->cancelled,
\* running->cancelled, and a completed, failed or cancelled Job never changes
\* status again, whatever the interleaving of runner writes and cancel.
C1_StatusStateMachine ==
    [][\A id \in JobIds :
          /\ (~Exists(id) /\ Exists(id)') => Job(id)'.status = "pending"
          /\ (Exists(id) /\ Exists(id)') =>
                \/ Job(id)'.status = Job(id).status
                \/ <<Job(id).status, Job(id)'.status>> \in Transitions]_vars

\* C1 witness: the runner's first write (status running) arrived after the
\* Job had been cancelled while pending, and the Job is still cancelled.
C1_Witness ==
    \E id \in DOMAIN trace :
        /\ Exists(id)
        /\ Job(id).status = "cancelled"
        /\ Len(trace[id]) >= 1
        /\ trace[id][1].op = "update_job_status"
        /\ ~trace[id][1].applied

\* C2: once a cancel has succeeded the Job stays cancelled, and a complete or
\* fail write its runner issues afterwards changes nothing: results, summary
\* and error stay unset.
C2_CancelBlocksLateWrites ==
    [][\A id \in JobIds :
          /\ (response' /= response /\ response' = Reply("cancel_job", id, 200))
                => (Exists(id) /\ Job(id).status \in {"pending", "running"}
                    /\ Exists(id)' /\ Job(id)'.status = "cancelled")
          /\ (Exists(id) /\ Job(id).status = "cancelled" /\ Exists(id)')
                => /\ Job(id)'.status = "cancelled"
                   /\ Job(id)'.results = None
                   /\ Job(id)'.summary = None
                   /\ Job(id)'.error = None]_vars

\* C2 witness: a cancelled Job whose runner issued complete or fail after the
\* cancel; the write was dropped.
C2_Witness ==
    \E id \in DOMAIN trace :
        /\ Exists(id)
        /\ Job(id).status = "cancelled"
        /\ \E k \in Calls(id, "complete_job") \cup Calls(id, "fail_job") :
              ~trace[id][k].applied

\* C3 (as claimed): once a bulk Job is cancelled its runner issues no
\* Evaluator call for a later chunk and calls neither complete nor fail.
C3_RunnerStopsOnCancel ==
    [][\A id \in DOMAIN trace :
          (runner[id].type = "bulk" /\ Exists(id) /\ Job(id).status = "cancelled")
              => \A op \in {"evaluate_bulk", "complete_job", "fail_job"} :
                    Calls(id, op)' = Calls(id, op)]_vars

\* a progress write of the runner of Job id has been taken by the store
TotalSet(id) ==
    \E k \in Calls(id, "update_job_progress") : trace[id][k].applied

\* C4: for a Job of any type progress.completed never decreases, the values
\* the runner writes to it are non-decreasing, total does not change once a
\* progress write has set it, and from then on completed <= total.
C4_ProgressMonotonic ==
    [][\A id \in DOMAIN trace' :
          /\ (Exists(id) /\ Exists(id)') =>
                /\ Job(id).completed <= Job(id)'.completed
                /\ TotalSet(id) => Job(id)'.total = Job(id).total
          /\ (Exists(id)' /\ TotalSet(id)') => Job(id)'.completed <= Job(id)'.total
          /\ \A k, l \in Calls(id, "update_job_progress")' :
                k < l => /\ trace'[id][k].a <= trace'[id][l].a
                         /\ trace'[id][k].b = trace'[id][l].b]_vars

\* C4 witness: a bulk Job whose runner wrote at least two per-chunk updates
\* and whose progress stands at completed = total.
C4_Witness ==
    \E id \in DOMAIN trace :
        /\ runner[id].type = "bulk"
        /\ Exists(id)
        /\ Cardinality(CallsAt(id, 230)) >= 2
        /\ Job(id).total >= 2
        /\ Job(id).completed = Job(id).total

\* every store call the runner of Job id issued so far was taken
Undisturbed(id) ==
    \A k \in 1..Len(trace[id]) : trace[id][k].applied

CeilDiv(n, b) == (n + b - 1) \div b

\* C5: a bulk job of N test cases with batch size B that was not cancelled
\* and in which no chunk failed has issued, when it calls complete, exactly
\* ceil(N/B) per-chunk progress updates with strictly increasing completed
\* values, the last one N.
C5_ChunkProgressUpdates ==
    \A id \in DOMAIN trace :
        (/\ runner[id].type = "bulk"
         /\ Calls(id, "complete_job") /= {}
         /\ Undisturbed(id))
        => LET ups == CallsAt(id, 230)
               N == runner[id].n
               B == runner[id].batch_size
           IN  /\ Cardinality(ups) = CeilDiv(N, B)
               /\ \A k, l \in ups : k < l => trace[id][k].a < trace[id][l].a
               /\ \A k \in ups : (\A l \in ups : l <= k) => trace[id][k].a = N
               /\ Exists(id) => Job(id).completed = N

\* C5 witness: a completed bulk job of 3 test cases run with batch size 2
\* (two chunks, the second one short).
C5_Witness ==
    \E id \in DOMAIN trace :
        /\ runner[id].type = "bulk"
        /\ runner[id].n = 3
        /\ runner[id].batch_size = 2
        /\ Exists(id)
        /\ Job(id).status = "completed"
        /\ Cardinality(CallsAt(id, 230)) = 2

Done(id) == runner[id].pc = "done"

\* what the trace of a bulk runner looks like once the Evaluator has raised:
\* the exception directly follows the call that raised, at most one store
\* call follows it, and no chunk was handed to the Evaluator twice
StoppedAtRaise(id) ==
    \A k \in Calls(id, "raised") :
        /\ k > 1
        /\ trace[id][k - 1].op = "evaluate_bulk"
        /\ trace[id][k - 1].a = trace[id][k].a
        /\ Len(trace[id]) <= k + 1
        /\ \A l, m \in Calls(id, "evaluate_bulk") :
              l /= m => trace[id][l].a /= trace[id][m].a

IsRate(r, a, b) == r[1] * b = a * r[2]

\* C7: a bulk job of N test cases whose chunks all succeeded and which was
\* not cancelled ends completed, with one result per test case in input
\* order and a summary with total = N, successful + failed = N and success
\* rate successful/total (0 when N = 0, 1 when all N >= 1 cases succeeded).
C7_BulkCompletes ==
    \A id \in DOMAIN trace :
        (/\ runner[id].type = "bulk"
         /\ Done(id)
         /\ Calls(id, "raised") = {}
         /\ Exists(id)
         /\ Job(id).status /= "cancelled")
        => LET N == runner[id].n
           IN  /\ Job(id).status = "completed"
               /\ \E results \in Job(id).results :
                     /\ Len(results) = N
                     /\ \A k \in 1..N : results[k].tc = k
                     /\ \E summary \in Job(id).summary :
                           LET ok == {k \in 1..N : results[k].overall_success}
                           IN  /\ summary.total_test_cases = N
                               /\ summary.successful_test_cases = Cardinality(ok)
                               /\ summary.successful_test_cases
                                    + summary.failed_test_cases = N
                               /\ N > 0 => IsRate(summary.success_rate,
                                                  Cardinality(ok), N)
                               /\ N = 0 => IsRate(summary.success_rate, 0, 1)
                               /\ (N > 0 /\ Cardinality(ok) = N)
                                     => IsRate(summary.success_rate, 1, 1)

\* C7 witness: a completed bulk job of 3 test cases evaluated in 3 chunks,
\* all of them successful.
C7_Witness ==
    \E id \in DOMAIN trace :
        /\ runner[id].type = "bulk"
        /\ runner[id].n = 3
        /\ Cardinality(Calls(id, "evaluate_bulk")) = 3
        /\ Exists(id)
        /\ Job(id).status = "completed"
        /\ \E summary \in Job(id).summary : summary.successful_test_cases = 3

\* the step is one of the background task of Job id
RunnerStep(id) ==
    /\ id \in DOMAIN runner
    /\ id \in DOMAIN runner'
    /\ <<runner[id], trace[id]>> /= <<runner'[id], trace'[id]>>

\* the runner of Job id writes fail and the store takes the write
FailTaken(id) ==
    /\ RunnerStep(id)
    /\ runner[id].pc = "fail"
    /\ Exists(id)
    /\ Job(id).status \notin Terminal

\* C8 (as claimed): every accepted Job eventually reaches a terminal status,
\* every error raised by its runner's Evaluator or parser call ends up as
\* status failed with the error message in the Job's error field, and no
\* step of a runner sends a response.
C8_AlwaysTerminatesErrorsFailed ==
    /\ \A id \in JobIds :
          [](id \in DOMAIN runner
                => <>(Exists(id) /\ Job(id).status \in Terminal))
    /\ [][\A id \in JobIds :
            /\ RunnerStep(id) => response' = response
            /\ (RunnerStep(id) /\ runner[id].pc = "fail" /\ Exists(id)')
                  => /\ Job(id)'.status = "failed"
                     /\ Job(id)'.error = Some(runner[id].error)
                     /\ runner[id].error /= ""]_vars

\* C8 (amended): every accepted Job eventually reaches a terminal status or
\* is deleted; an error raised by its runner's Evaluator or parser call ends
\* up as status failed with the error message in the Job's error field
\* unless the Job was cancelled or deleted before the runner's fail write,
\* which then changes nothing; no step of a runner sends a response.
C8_TerminatesOrDeletedErrorsFailed ==
    /\ \A id \in JobIds :
          [](id \in DOMAIN runner
                => <>(~Exists(id) \/ Job(id).status \in Terminal))
    /\ [][\A id \in JobIds :
            /\ RunnerStep(id) => response' = response
            /\ FailTaken(id)
                  => /\ Exists(id)'
                     /\ Job(id)'.status = "failed"
                     /\ Job(id)'.error = Some(runner[id].error)
                     /\ runner[id].error /= ""
            /\ (RunnerStep(id) /\ runner[id].pc = "fail" /\ ~FailTaken(id))
                  => jobs' = jobs]_vars

\* C8 witness: a dataset Job whose parser raised on an undetectable format,
\* now failed with the parser's message.
C8_Witness ==
    \E id \in DOMAIN trace :
        /\ runner[id].type = "dataset"
        /\ Done(id)
        /\ Calls(id, "raised") /= {}
        /\ Exists(id)
        /\ Job(id).status = "failed"
        /\ Job(id).error =
              Some("Could not determine file format. Please specify file_format.")

\* the ids of the Jobs at the given page of GET /jobs
Listed(page, page_size, status, tag) ==
    {list_jobs(page, page_size, status, tag).jobs[k].job_id :
        k \in 1..Len(list_jobs(page, page_size, status, tag).jobs)}

\* the last progress write of the runner of Job id that the store took
LastProgress(id) ==
    LET taken == {k \in Calls(id, "update_job_progress") : trace[id][k].applied}
    IN  trace[id][CHOOSE k \in taken : \A l \in taken : l <= k]

C10_OversizeRejected ==
    [][(response' /= response /\ response'.op = "evaluate_dataset")
          => /\ (response'.size > max_file_size) <=> (response'.code = 413)
             /\ response'.code = 413
                   => /\ jobs' = jobs
                      /\ runner' = runner
                      /\ nextId' = nextId
                      /\ trace' = trace
             /\ response'.code /= 413
                   => /\ response'.code = 200
                      /\ DOMAIN Store' = DOMAIN Store \cup {response'.id}
                      /\ response'.id \notin DOMAIN Store]_vars

\* C10 witness: an oversized upload was answered 413 while the store held a
\* Job.
C10_Witness ==
    /\ response.op = "evaluate_dataset"
    /\ response.code = 413
    /\ response.size > max_file_size
    /\ DOMAIN Store /= {}

\* C11 (as claimed): no Job is ever created for a dataset upload whose format
\* is unsupported, or is "auto" with a filename extension that names no
\* format: every dataset Job whose file has not been parsed yet has a format
\* the parser accepts.
C11_BadFormatNeverCreatesJob ==
    \A id \in DOMAIN runner :
        (runner[id].type = "dataset" /\ runner[id].pc \in {"status", "start", "parse"})
        => FormatError(runner[id].file_format, runner[id].ext) = None

\* the step answers a request to the handler op of app/api/jobs.py
Answered(op) == response' /= response /\ response'.op = op

\* C12: cancelling a Job that is completed, failed or cancelled, or an id that
\* is not in the store, is answered 400 and leaves every Job as it was (so a
\* second cancel of a cancelled Job fails); any other cancel is answered 200.
C12_CancelOfTerminalFails ==
    [][\A id \in JobIds :
          (Answered("cancel_job") /\ response'.id = id)
          => /\ (~Exists(id) \/ Job(id).status \in Terminal)
                    <=> (response'.code = 400)
             /\ response'.code \in {200, 400}
             /\ response'.code = 400
                    => /\ jobs' = jobs
                       /\ runner' = runner
                       /\ trace' = trace]_vars

\* C12 witness: a second cancel of a cancelled Job was answered 400 and the
\* Job is still there, cancelled.
C12_Witness ==
    \E id \in DOMAIN Store :
        /\ Job(id).status = "cancelled"
        /\ response = Reply("cancel_job", id, 400)

\* C13: deleting an id that is not in the store is answered 404 and changes
\* nothing; a delete of a Job in the store is answered 200 and removes it;
\* an id that has left the store is absent from get, list and stats in every
\* later state, whatever its runner writes afterwards.
C13_DeletedStaysAbsent ==
    [][\A id \in JobIds :
          /\ (Answered("delete_job") /\ response'.id = id)
                => /\ (~Exists(id)) <=> (response'.code = 404)
                   /\ response'.code \in {200, 404}
                   /\ response'.code = 404 => jobs' = jobs
                   /\ response'.code = 200 => ~Exists(id)'
          /\ (id \in DOMAIN runner /\ ~Exists(id))
                => /\ ~Exists(id)'
                   /\ get_job(id)'.code = 404
                   /\ id \notin Listed(1, MaxJobs, "", "")'
                   /\ get_job_stats'.total_jobs
                        = Cardinality(DOMAIN Store' \ {id})]_vars

\* C13 witness: a Job deleted while running, whose runner afterwards issued a
\* progress, complete or fail write that the store dropped; the id is absent.
C13_Witness ==
    \E id \in DOMAIN trace :
        /\ response = Reply("delete_job", id, 200)
        /\ get_job(id).code = 404
        /\ Len(trace[id]) >= 2
        /\ trace[id][1].applied
        /\ \E k \in Calls(id, "update_job_progress") \cup Calls(id, "complete_job")
                        \cup Calls(id, "fail_job") :
              ~trace[id][k].applied

\* C14: a cleanup removes exactly the Jobs that are completed, failed or
\* cancelled and were last updated more than max_age_days ago, reports how
\* many it removed, removes no pending or running Job whatever its age, and
\* leaves every remaining Job as it was, so that the writes of its runner and
\* a cancel are still taken.
C14_CleanupSweepsOldTerminal ==
    [][Answered("cleanup_old_jobs")
          => \E max_age_days \in 1..MaxTime :
                LET removed == DOMAIN Store \ DOMAIN Store'
                IN  /\ DOMAIN Store' \subseteq DOMAIN Store
                    /\ \A id \in DOMAIN Store :
                          (id \in removed)
                              <=> /\ Job(id).status \in Terminal
                                  /\ Job(id).updated_at + max_age_days < now
                    /\ \A id \in DOMAIN Store :
                          Job(id).status \in {"pending", "running"}
                              => /\ Exists(id)'
                                 /\ JobService_Writable(Store', id)
                    /\ \A id \in DOMAIN Store' : Job(id)' = Job(id)
                    /\ response'.deleted_count = Cardinality(removed)
                    /\ response'.code = 200
                    /\ runner' = runner
                    /\ trace' = trace]_vars

\* C14 witness: a sweep has just removed the only Job, a terminal one.
C14_Witness ==
    /\ response.op = "cleanup_old_jobs"
    /\ response.deleted_count = 1
    /\ \E id \in DOMAIN runner : ~Exists(id)
    /\ now = MaxTime

\* 45 Jobs created one per day, and the second page of 20 of them
FortyFive ==
    [id \in 1..45 |-> NewJob(id, {}, [type |-> "single", test_case_count |-> None], id)]

FortyFivePageTwo == JobService_list_jobs(FortyFive, 2, 20, "", "")

\* C16: a list request filters the Jobs by status and tag, orders the matching
\* ones by created_at, newest first, and returns those at positions
\* (page-1)*page_size+1 .. min(page*page_size, total) of that order, total
\* being the number of matching Jobs; of 45 Jobs, page 2 of size 20 holds the
\* 21st to the 40th most recently created.
C16_ListFiltersOrdersPaginates ==
    /\ \A page \in Pages, page_size \in PageSizes,
          status \in StatusFilters, tag \in TagFilters :
          LET S == JobsStore
              matching == {k \in DOMAIN S :
                              /\ status = "" \/ S[k].status = status
                              /\ tag = "" \/ tag \in S[k].tags}
              r == list_jobs(page, page_size, status, tag)
              from == (page - 1) * page_size + 1
              to == Min(page * page_size, Cardinality(matching))
              Newer(job) == {k \in matching : S[k].created_at > job.created_at}
              NotOlder(job) == {k \in matching : S[k].created_at >= job.created_at}
          IN  /\ r.total = Cardinality(matching)
              /\ r.page = page
              /\ r.page_size = page_size
              /\ Len(r.jobs) = (IF to < from THEN 0 ELSE to - from + 1)
              /\ \A p \in 1..Len(r.jobs) :
                    /\ r.jobs[p].job_id \in matching
                    /\ r.jobs[p] = S[r.jobs[p].job_id]
                    /\ Cardinality(Newer(r.jobs[p])) <= from + p - 2
                    /\ Cardinality(NotOlder(r.jobs[p])) >= from + p - 1
              /\ \A p, q \in 1..Len(r.jobs) :
                    p < q => /\ r.jobs[p].job_id /= r.jobs[q].job_id
                             /\ r.jobs[p].created_at >= r.jobs[q].created_at
    /\ FortyFivePageTwo.total = 45
    /\ Len(FortyFivePageTwo.jobs) = 20
    /\ \A p \in 1..20 : FortyFivePageTwo.jobs[p].job_id = 45 - 20 - p + 1

\* C16 witness: of three Jobs, two of them created on the same day, the
\* second page of size 2 was listed and holds one Job, the oldest.
C16_Witness ==
    /\ response.op = "list_jobs"
    /\ response.body.page = 2
    /\ response.body.page_size = 2
    /\ response.body.total = 3
    /\ Len(response.body.jobs) = 1
    /\ \E k \in DOMAIN JobsStore :
          JobsStore[k].created_at = response.body.jobs[1].created_at + 1
    /\ \E k, l \in DOMAIN JobsStore :
          k /= l /\ JobsStore[k].created_at = JobsStore[l].created_at

\* the step accepts an async request: the task of Job id is dispatched
Accepted(id) == id \notin DOMAIN runner /\ id \in DOMAIN runner'

\* the step is the first one of the background task of Job id
FirstStep(id) == id \in DOMAIN trace /\ trace[id] = <<>> /\ trace'[id] /= <<>>

\* C17: an async endpoint creates the Job (pending, progress 0 of 0, nothing
\* else set) in the step that dispatches its task, and answers 200 with that
\* job id and status pending while the task has not run; a Job enters the
\* store in no other way; the first thing the task does is a write to the
\* Job, issued after the Job was created and before anything else was
\* written to it by a task.
C17_CreatedBeforeDispatch ==
    [][\A id \in JobIds :
          /\ Accepted(id)
                => /\ ~Exists(id)
                   /\ Exists(id)'
                   /\ Job(id)'.status = "pending"
                   /\ Job(id)'.completed = 0
                   /\ Job(id)'.total = 0
                   /\ Job(id)'.results = None
                   /\ Job(id)'.summary = None
                   /\ Job(id)'.error = None
                   /\ response'.op \in {"evaluate_async", "evaluate_bulk_async",
                                        "evaluate_dataset"}
                   /\ response'.code = 200
                   /\ response'.id = id
                   /\ response'.status = "pending"
                   /\ runner'[id].pc = "status"
                   /\ trace'[id] = <<>>
          /\ (~Exists(id) /\ Exists(id)') => Accepted(id)
          /\ FirstStep(id)
                => /\ id < nextId
                   /\ Len(trace'[id]) = 1
                   /\ trace'[id][1].op = "update_job_status"
                   /\ trace'[id][1].applied
                        <=> (Exists(id) /\ Job(id).status = "pending")
                   /\ Exists(id) => /\ Job(id).status \in {"pending", "cancelled"}
                                    /\ Job(id).completed = 0
                                    /\ Job(id).total = 0]_vars

\* C17 witness: the bulk endpoint answered pending for a Job whose task has
\* since made its first write, taken by the store: the Job is running.
C17_Witness ==
    \E id \in DOMAIN trace :
        /\ response = Response("evaluate_bulk_async", id, 200, "pending", 0, 0)
        /\ Len(trace[id]) = 1
        /\ trace[id][1].applied
        /\ Exists(id)
        /\ Job(id).status = "running"

\* the total a task writes with its initial progress
InitialTotal(r) ==
    IF r.type = "single" THEN 1 ELSE IF r.type = "bulk" THEN r.n ELSE 100

\* the calls of the task of Job id to the Evaluator or the DatasetParser
ExternalCalls(id) ==
    Calls(id, "evaluate_single") \cup Calls(id, "evaluate_bulk")
        \cup Calls(id, "_parse_dataset_file")

\* the order of the first calls of every task: status, progress (0, total),
\* and only then the Evaluator or the DatasetParser
DispatchOrder(id) ==
    /\ Len(trace[id]) >= 1 => trace[id][1].op = "update_job_status"
    /\ Len(trace[id]) >= 2 => /\ trace[id][2].op = "update_job_progress"
                               /\ trace[id][2].a = 0
                               /\ trace[id][2].b = InitialTotal(runner[id])
    /\ \A k \in ExternalCalls(id) : k >= 3
    /\ (Len(trace[id]) >= 2 /\ trace[id][2].applied /\ Exists(id))
          => Job(id).total = InitialTotal(runner[id])

\* C18 (as claimed): every task first moves its Job from pending to running,
\* then writes progress 0 of total (1 for a single job, N for a bulk job),
\* and calls the Evaluator or the DatasetParser only after both writes.
C18_DispatchRunningThenProgress ==
    \A id \in DOMAIN trace :
        /\ DispatchOrder(id)
        /\ Len(trace[id]) >= 1 => trace[id][1].applied

\* C18 (amended): as C18, except that the first write moves the Job to
\* running only if the Job is still pending: a Job cancelled or deleted
\* before its task started is left as it is.
C18_DispatchRunningUnlessCancelled ==
    \A id \in DOMAIN trace :
        /\ DispatchOrder(id)
        /\ (Len(trace[id]) >= 1 /\ Exists(id)) => Job(id).status /= "pending"
        /\ (Len(trace[id]) >= 1 /\ ~trace[id][1].applied)
              => (~Exists(id) \/ Job(id).status = "cancelled")

\* C18 witness: a bulk task of 3 test cases that wrote running and progress
\* 0 of 3, both taken, and has just called the Evaluator for the first time.
C18_Witness ==
    \E id \in DOMAIN trace :
        /\ runner[id].type = "bulk"
        /\ Len(trace[id]) = 3
        /\ trace[id][1].applied
        /\ trace[id][2].applied
        /\ trace[id][3].op = "evaluate_bulk"
        /\ Exists(id)
        /\ Job(id).status = "running"
        /\ Job(id).total = 3

\* C19: a bulk task uses batch size B = min(max_concurrent, 10), or 10 when
\* max_concurrent is not given; every Evaluator call gets at least one and at
\* most B test cases; the first chunk starts at the first test case, every
\* other chunk where the chunk before it ended, and every chunk but the last
\* is full; when the task calls complete the chunks have covered all N test
\* cases.
C19_ChunksPartitionInput ==
    \A id \in DOMAIN trace :
        runner[id].type = "bulk"
        => LET t == trace[id]
               ev == Calls(id, "evaluate_bulk")
               mc == runner[id].max_concurrent
               N == runner[id].n
               B == IF mc = 0 THEN 10 ELSE IF mc < 10 THEN mc ELSE 10
               IsLast(k) == \A l \in ev : l <= k
               IsFirst(k) == \A l \in ev : k <= l
               Follows(k, l) == k < l /\ \A m \in ev : m <= k \/ l <= m
           IN  /\ runner[id].pc \notin {"status", "start"}
                     => runner[id].batch_size = B
               /\ \A k \in ev :
                     /\ t[k].b >= 1
                     /\ t[k].b <= B
                     /\ t[k].a + t[k].b <= N
                     /\ IsFirst(k) => t[k].a = 0
                     /\ ~IsLast(k) => t[k].b = B
               /\ \A k, l \in ev : Follows(k, l) => t[l].a = t[k].a + t[k].b
               /\ Calls(id, "complete_job") /= {}
                     => /\ N = 0 => ev = {}
                        /\ N > 0 => \E k \in ev : IsLast(k) /\ t[k].a + t[k].b = N

\* C19 witness: 3 test cases with max_concurrent 2 went to the Evaluator as
\* the chunks [0, 2) and [2, 3), and the task called complete.
C19_Witness ==
    \E id \in DOMAIN trace :
        /\ runner[id].type = "bulk"
        /\ runner[id].max_concurrent = 2
        /\ Calls(id, "complete_job") /= {}
        /\ \E k, l \in Calls(id, "evaluate_bulk") :
              /\ k < l
              /\ <<trace[id][k].a, trace[id][k].b>> = <<0, 2>>
              /\ <<trace[id][l].a, trace[id][l].b>> = <<2, 1>>

\* the messages of the errors _parse_dataset_file raises
ParserMessages ==
    {"parse error", "Unsupported file format",
     "Could not determine file format. Please specify file_format."}

\* the DatasetParser raised for the file of dataset Job id
ParseRaised(id) ==
    /\ runner[id].type = "dataset"
    /\ \E k \in Calls(id, "raised") :
          k > 1 /\ trace[id][k - 1].op = "_parse_dataset_file"

\* what holds of a dataset task whose parser raised, whatever else happened
StoppedAtParse(id) ==
    /\ Calls(id, "evaluate_bulk") = {}
    /\ \A k \in Calls(id, "update_job_progress") :
          trace[id][k].a <= 10 /\ trace[id][k].b = 100
    /\ Exists(id) => Job(id).completed <= 10
    /\ Exists(id) => (Job(id).results = None /\ Job(id).summary = None)
    /\ runner[id].pc \in {"fail", "done"}
    /\ runner[id].pc = "fail" => runner[id].error \in ParserMessages

\* C20 (as claimed): when parsing the file of a dataset job raises, the
\* Evaluator is never called for the Job, progress stays at most 10 of 100,
\* and the Job ends failed with the parser's message as its error.
C20_ParseErrorEndsFailed ==
    \A id \in DOMAIN trace :
        ParseRaised(id)
        => /\ StoppedAtParse(id)
           /\ (Done(id) /\ Exists(id))
                 => /\ Job(id).status = "failed"
                    /\ \E e \in ParserMessages : Job(id).error = Some(e)

\* C20 (amended): as C20, except that a Job cancelled before the task's fail
\* write stays cancelled with error unset.
C20_ParseErrorEndsFailedUnlessCancelled ==
    \A id \in DOMAIN trace :
        ParseRaised(id)
        => /\ StoppedAtParse(id)
           /\ (Done(id) /\ Exists(id))
                 => /\ Calls(id, "fail_job") = {Len(trace[id])}
                    /\ IF trace[id][Len(trace[id])].applied
                       THEN /\ Job(id).status = "failed"
                            /\ \E e \in ParserMessages : Job(id).error = Some(e)
                       ELSE /\ Job(id).status = "cancelled"
                            /\ Job(id).error = None

\* C20 witness: a dataset Job whose upload named the format xml: the parser
\* raised, the Job is failed with the parser's message and progress 0 of 100.
C20_Witness ==
    \E id \in DOMAIN trace :
        /\ ParseRaised(id)
        /\ Done(id)
        /\ Exists(id)
        /\ Job(id).status = "failed"
        /\ Job(id).error = Some("Unsupported file format")
        /\ Job(id).completed = 0
        /\ Job(id).total = 100

\* the request carries a bearer token or an API key that AuthService accepts
ValidCredentials(cred) == cred.token \in {"user", "admin"} \/ cred.api_key = "key"

\* what the dependencies make of the requests without valid credentials
Unauthenticated ==
    {Resolution(cred) : cred \in {c \in Credentials : ~ValidCredentials(c)}}

\* what they make of the requests of authenticated users without admin scope
NotAdmin ==
    {Resolution(cred) :
        cred \in {c \in Credentials :
                    /\ ValidCredentials(c)
                    /\ \A u \in get_current_user(c).user : "admin" \notin u.scopes}}

\* the step creates, changes or deletes no Job, dispatches no task and lets
\* no task call the Evaluator
NothingDone == UNCHANGED <<jobs, nextId, runner, trace, now>>

\* C15: a request to any evaluation or job endpoint that carries neither a
\* valid bearer token nor a valid API key is answered 401; a cleanup request
\* of an authenticated user without the admin scope is answered 403; a
\* request answered 401 or 403 creates, changes and deletes no Job and
\* dispatches no task, and 403 is the answer of cleanup only.
C15_UnauthenticatedRejected ==
    [][/\ \A resolved \in Unauthenticated :
             Routes(resolved[1], resolved[2])
                 => (response'.code = 401 /\ NothingDone)
       /\ \A resolved \in NotAdmin :
             Depends(resolved[2], "cleanup_old_jobs", cleanup_old_jobs)
                 => (response' = Response("cleanup_old_jobs", 0, 403, "", 0, 0)
                     /\ NothingDone)
       /\ (response' /= response /\ response'.code \in {401, 403}) => NothingDone
       /\ (response' /= response /\ response'.code = 403)
             => response'.op = "cleanup_old_jobs"]_vars

\* C15 witness: a cancel request without valid credentials was answered 401
\* while the Job was running with two chunks evaluated; it is still running.
C15_Witness ==
    /\ response = Response("cancel_job", 0, 401, "", 0, 0)
    /\ \E id \in DOMAIN Store :
          /\ Job(id).status = "running"
          /\ Cardinality(Calls(id, "evaluate_bulk")) = 2

\* C21: in every state a Job has results or summary only if it is completed
\* and an error only if it is failed; results and summary are set in the
\* step that makes the Job completed, the error in the step that makes it
\* failed, and none of the three changes once it is set.
C21_OutcomeWriteOnce ==
    /\ [](\A id \in DOMAIN Store :
            /\ (Job(id).results /= None \/ Job(id).summary /= None)
                  => Job(id).status = "completed"
            /\ Job(id).error /= None => Job(id).status = "failed")
    /\ [][\A id \in DOMAIN Store \cap DOMAIN Store' :
            /\ Job(id).results /= None => Job(id)'.results = Job(id).results
            /\ Job(id).summary /= None => Job(id)'.summary = Job(id).summary
            /\ Job(id).error /= None => Job(id)'.error = Job(id).error
            /\ (Job(id).results /= Job(id)'.results
                    \/ Job(id).summary /= Job(id)'.summary)
                  => /\ Job(id).status = "running"
                     /\ Job(id)'.status = "completed"
                     /\ Job(id)'.results /= None
                     /\ Job(id)'.summary /= None
            /\ Job(id).error /= Job(id)'.error
                  => /\ Job(id).status = "running"
                     /\ Job(id)'.status = "failed"
            /\ (Job(id).status /= "completed" /\ Job(id)'.status = "completed")
                  => (Job(id)'.results /= None /\ Job(id)'.summary /= None)
            /\ (Job(id).status /= "failed" /\ Job(id)'.status = "failed")
                  => Job(id)'.error /= None]_vars

\* C21 witness: a completed Job with results and summary on which a cancel
\* has since failed.
C21_Witness ==
    \E id \in DOMAIN Store :
        /\ Job(id).status = "completed"
        /\ Job(id).results /= None
        /\ Job(id).summary /= None
        /\ Job(id).error = None
        /\ response = Reply("cancel_job", id, 400)

\* the step is one of the background task of Job a, or a cancel of Job a
StepFor(a) ==
    \/ RunnerStep(a)
    \/ (Answered("cancel_job") /\ response'.id = a)

\* C22: a step of the background task of a Job, or a cancel of it, changes
\* no other Job: every other Job is in the store or not as before, with every
\* field as before, and its task is where it was; and in no step does the
\* id, created_at, metadata or tags of a Job change.
C22_OtherJobsUntouched ==
    [][/\ \A a \in DOMAIN runner :
             StepFor(a)
             => \A b \in DOMAIN runner \ {a} :
                   /\ Exists(b)' = Exists(b)
                   /\ Exists(b) => Job(b)' = Job(b)
                   /\ runner'[b] = runner[b]
                   /\ trace'[b] = trace[b]
       /\ \A id \in DOMAIN Store \cap DOMAIN Store' :
             /\ Job(id)'.job_id = id
             /\ Job(id)'.created_at = Job(id).created_at
             /\ Job(id)'.metadata = Job(id).metadata
             /\ Job(id)'.tags = Job(id).tags]_vars

\* C22 witness: two bulk Jobs ran side by side; the second was cancelled after
\* its first chunk while the first, also one chunk in, is still running.
C22_Witness ==
    /\ DOMAIN Store = {1, 2}
    /\ Job(1).status = "running"
    /\ Job(1).completed = 1
    /\ Job(1).total = 2
    /\ Job(2).status = "cancelled"
    /\ Job(2).completed = 1
    /\ response = Reply("cancel_job", 2, 200)

\* C23: POST /evaluate and POST /evaluate/bulk answer 500 when the Evaluator
\* raises and 200 when it returns, and whatever they answer no Job is
\* created, changed or deleted and no task is dispatched.
C23_SyncErrorsAre500 ==
    [][\A op \in {"evaluate_single", "evaluate_bulk"} :
          /\ Synchronous(op, TRUE) => response'.code = 500
          /\ Synchronous(op, FALSE) => response'.code = 200
          /\ Answered(op) => /\ response'.code \in {200, 401, 500}
                             /\ NothingDone]_vars

\* C23 witness: a synchronous bulk evaluation was answered 500 while a Job
\* was running with one chunk evaluated; the Job is as it was.
C23_Witness ==
    /\ response = Response("evaluate_bulk", 0, 500, "", 0, 0)
    /\ \E id \in DOMAIN Store :
          /\ Job(id).status = "running"
          /\ Job(id).completed = 1
          /\ Cardinality(Calls(id, "evaluate_bulk")) = 2

\* the task of Job id is a bulk evaluation of zero test cases
BulkOfNone(id) ==
    /\ id \in DOMAIN runner
    /\ runner[id].type = "bulk"
    /\ runner[id].n = 0

\* a bulk task of zero test cases calls no Evaluator, catches no exception,
\* writes no per-chunk progress and leaves progress at 0 of 0
NothingEvaluated(id) ==
    /\ Calls(id, "evaluate_bulk") = {}
    /\ Calls(id, "raised") = {}
    /\ Calls(id, "fail_job") = {}
    /\ CallsAt(id, 230) = {}
    /\ \A k \in Calls(id, "update_job_progress") :
          trace[id][k].a = 0 /\ trace[id][k].b = 0
    /\ Exists(id) => (Job(id).completed = 0 /\ Job(id).total = 0)

\* the Job of id is completed with empty results and progress 0 of 0
CompletedEmpty(id) ==
    /\ Exists(id)
    /\ Job(id).status = "completed"
    /\ Job(id).results = Some(<<>>)
    /\ Job(id).completed = 0
    /\ Job(id).total = 0

\* C24 (as claimed): a bulk job of zero test cases makes no Evaluator call,
\* writes no per-chunk progress update and eventually is completed with empty
\* results and progress 0 of 0.
C24_EmptyBulkCompletes ==
    /\ [](\A id \in DOMAIN runner : BulkOfNone(id) => NothingEvaluated(id))
    /\ \A id \in JobIds :
          []((BulkOfNone(id) /\ ~Done(id)) => <>CompletedEmpty(id))

\* C24 (amended): as C24, except that a Job cancelled before the task's
\* complete write ends cancelled, without results, and a deleted Job is no
\* longer in the store; in every case the task runs to its end.
C24_EmptyBulkCompletesUnlessCancelled ==
    /\ [](\A id \in DOMAIN runner : BulkOfNone(id) => NothingEvaluated(id))
    /\ [](\A id \in DOMAIN runner :
            (BulkOfNone(id) /\ Done(id))
            => /\ Calls(id, "complete_job") = {Len(trace[id])}
               /\ (trace[id][Len(trace[id])].applied /\ Exists(id))
                     => CompletedEmpty(id)
               /\ (~trace[id][Len(trace[id])].applied /\ Exists(id))
                     => (Job(id).status = "cancelled" /\ Job(id).results = None))
    /\ \A id \in JobIds : [](BulkOfNone(id) => <>(BulkOfNone(id) /\ Done(id)))

\* C24 witness: a bulk Job of zero test cases is completed with empty results
\* after three calls of its task: status, progress 0 of 0, complete.
C24_Witness ==
    \E id \in DOMAIN runner :
        /\ BulkOfNone(id)
        /\ Done(id)
        /\ Len(trace[id]) = 3
        /\ CompletedEmpty(id)
        /\ \E summary \in Job(id).summary : summary.total_test_cases = 0

\* the number of test cases the task of Job id evaluates: 1 for a single
\* evaluation, the length of the request's list for a bulk one
TestCases(id) == IF runner[id].type = "single" THEN 1 ELSE runner[id].n

\* the last progress call the task of Job id issued before its call k
ProgressBefore(id, k) ==
    LET before == {l \in Calls(id, "update_job_progress") : l < k}
    IN  IF before = {} THEN None
        ELSE Some(trace[id][CHOOSE l \in before : \A m \in before : m <= l])

\* C25: whenever a single or bulk task calls complete for its Job, the last
\* progress it wrote has completed equal to total (1 of 1 for a single job,
\* N of N for a bulk job of N test cases), and a single or bulk Job that is
\* completed shows completed = total.
C25_CompleteAfterFullProgress ==
    \A id \in DOMAIN runner :
        runner[id].type \in {"single", "bulk"}
        => /\ \A k \in Calls(id, "complete_job") :
                 /\ ProgressBefore(id, k) /= None
                 /\ \A p \in ProgressBefore(id, k) :
                       p.a = TestCases(id) /\ p.b = TestCases(id)
           /\ (Exists(id) /\ Job(id).status = "completed")
                 => /\ Job(id).completed = Job(id).total
                    /\ Job(id).total = TestCases(id)

\* C25 witness: a single Job is completed showing 1 of 1, and its task's
\* complete call was taken directly after the progress call of line 187.
C25_Witness ==
    \E id \in DOMAIN runner :
        /\ runner[id].type = "single"
        /\ Exists(id)
        /\ Job(id).status = "completed"
        /\ Job(id).completed = 1
        /\ Job(id).total = 1
        /\ \E k \in Calls(id, "complete_job") :
              /\ trace[id][k].applied
              /\ trace[id][k - 1].line = 187

\* the last request was answered by an identity endpoint
IdentityAnswered == response.op \in {"read_users_me", "validate_token"}

\* the request's bearer token is one that verifies
TokenVerifies(cred) == cred.token \in {"user", "admin"}

\* the request's X-API-Key header holds the valid key
KeyValid(cred) == cred.api_key = "key"

\* C26: a request is authenticated as the bearer-token user when the token
\* verifies (also when a valid API key comes with it), otherwise as the
\* API-key user when the X-API-Key header holds a valid key (also when an
\* invalid or expired token comes with it), otherwise it is rejected with 401.
C26_TokenThenKeyElse401 ==
    IdentityAnswered
    => LET cred == response.request
       IN  /\ TokenVerifies(cred)
              => /\ response.code = 200
                 /\ \E u \in response.user :
                       /\ response.user = {u}
                       /\ u.username = cred.token
                       /\ ("admin" \in u.scopes) = (cred.token = "admin")
           /\ (~TokenVerifies(cred) /\ KeyValid(cred))
              => /\ response.code = 200
                 /\ \E u \in response.user :
                       /\ response.user = {u}
                       /\ u.username = "api"
                       /\ ("admin" \in u.scopes) = cred.api_admin
           /\ (~TokenVerifies(cred) /\ ~KeyValid(cred))
              => /\ response.code = 401
                 /\ response.user = None

\* C26 witness: GET /auth/me with an expired bearer token and the valid API
\* key is answered 200 with the API user.
C26_Witness ==
    /\ response.op = "read_users_me"
    /\ response.request.token = "expired"
    /\ response.request.api_key = "key"
    /\ response.code = 200
    /\ \E u \in response.user : u.username = "api"

====
